---- MODULE Spec2Model ----
(***************************************************************************)
(* A model of the ESC/POS encoder of web-print-escpos: the Printer session *)
(* (barcode, qrcode, image, text, tableCustom), the PrintImage projections *)
(* (toBitmap, toRaster) and the utils (getParityBit, codeLength,           *)
(* charLength, textLength, textSubstring).                                 *)
(*                                                                         *)
(* A JavaScript string is a sequence of UTF-16 code units (naturals).      *)
(* The output buffer is a sequence of fragments, one per buffer.write /    *)
(* writeUInt8 / writeUInt16LE call, in the order of the calls.  The        *)
(* command table (./commands) is not among the sources: a command is the   *)
(* name under which the code looks it up.                                  *)
(***************************************************************************)
EXTENDS Integers, Sequences, FiniteSets, TLC

VARIABLES
  buffer,     \* Printer.buffer: the fragments written so far
  encoding,   \* Printer.encoding
  width,      \* Printer.width
  _model,     \* Printer._model
  pending,    \* image() calls suspended in their 200 ms delay, oldest first
  thrown,     \* what the last call raised ("none" when it returned)
  call,       \* the last call and its arguments
  before,     \* buffer and session state when the last call was entered
  ncalls,     \* calls issued so far
  str,        \* getParityBit: the argument
  parity,     \* getParityBit: the result
  image,      \* PrintImage: its size and data (the ink mask)
  raster,     \* PrintImage.toRaster(): the result
  bitmap,     \* PrintImage.toBitmap(density): the result
  data,       \* tableCustom: the row being rendered (the cells are mutated)
  options,    \* tableCustom: options.size
  cells,      \* tableCustom: per line, lineStr cell by cell
  depth,      \* tableCustom: recursion depth reached
  row,        \* tableCustom: the row the caller passed
  pc          \* the position of the pure-function drivers

vars == <<buffer, encoding, width, _model, pending, thrown, call, before, ncalls,
          str, parity, image, raster, bitmap,
          data, options, cells, depth, row, pc>>

sessionVars == <<buffer, encoding, width, _model, pending, thrown, call, before, ncalls>>
parityVars == <<str, parity>>
imageVars == <<image, raster, bitmap>>
tableVars == <<data, options, cells, depth, row>>

(***************************************************************************)
(* Values of the host language                                             *)
(***************************************************************************)
\* undefined / null, for an argument that is a string otherwise
Undefined == "<undefined>"
\* undefined, for an argument that is a number otherwise
NoNum == -1

Max(a, b) == IF a > b THEN a ELSE b

RECURSIVE Repeat(_, _)
Repeat(c, n) == IF n <= 0 THEN <<>> ELSE <<c>> \o Repeat(c, n - 1)

\* String.prototype.toUpperCase on the strings the model passes
upperCase(string) ==
  CASE string = "a" -> "A"
    [] string = "b" -> "B"
    [] string = "blw" -> "BLW"
    [] string = "abv" -> "ABV"
    [] string = "ean13" -> "EAN13"
    [] string = "d8" -> "D8"
    [] string = "d24" -> "D24"
    [] string = "left" -> "LEFT"
    [] string = "right" -> "RIGHT"
    [] string = "center" -> "CENTER"
    [] OTHER -> string

(***************************************************************************)
(* utils                                                                   *)
(***************************************************************************)
\* the sizes (width multipliers) the table driver passes; cell widths are
\* fractions with a denominator among them, so the table model counts columns
\* in units of 1/Scale
Sizes == {1, 2}
Scale == CHOOSE s \in Sizes : \A t \in Sizes : s % t = 0

Reverse(s) == [i \in 1..Len(s) |-> s[Len(s) + 1 - i]]

\* parseInt(char, 10) of a decimal digit
parseInt(char) == char - 48

\* Number.prototype.toString() of a single decimal digit
digitToString(d) == <<48 + d>>

\* Math.pow(3, e) for e in {0, 1}
pow3(e) == IF e = 0 THEN 1 ELSE 3

RECURSIVE paritySum(_, _)
paritySum(reversedCode, counter) ==
  IF counter >= Len(reversedCode) THEN 0
  ELSE parseInt(reversedCode[counter + 1]) * pow3((counter + 1) % 2)
       + paritySum(reversedCode, counter + 1)

getParityBit_swapped(s) ==
  LET reversedCode == Reverse(s)
      RECURSIVE sum(_)
      sum(counter) ==
        IF counter >= Len(reversedCode) THEN 0
        ELSE parseInt(reversedCode[counter + 1]) * pow3(counter % 2) + sum(counter + 1)
  IN  digitToString((10 - (sum(0) % 10)) % 10)

getParityBit(s) ==
  LET reversedCode == Reverse(s)
      parityV == paritySum(reversedCode, 0)
  IN  digitToString((10 - (parityV % 10)) % 10)

\* Number.prototype.toString(16), as hexadecimal digit values
RECURSIVE toHex(_)
toHex(n) == IF n < 16 THEN <<n>> ELSE toHex(n \div 16) \o <<n % 16>>

\* Buffer.from(hex, 'hex'): one byte per complete pair of digits
RECURSIVE fromHex(_)
fromHex(h) ==
  IF Len(h) < 2 THEN <<>>
  ELSE <<h[1] * 16 + h[2]>> \o fromHex(SubSeq(h, 3, Len(h)))

\* Buffer.prototype.toString() (UTF-8) of bytes that are each a character of
\* their own: an ASCII byte is that character, any other U+FFFD
bytesToString(b) == [i \in 1..Len(b) |-> IF b[i] < 128 THEN b[i] ELSE 65533]

codeLength(s) == bytesToString(fromHex(toHex(Len(s))))

charLength(char) == IF char > 127 /\ char <= 65535 THEN 2 ELSE 1

RECURSIVE textLength(_)
textLength(s) ==
  IF s = <<>> THEN 0 ELSE charLength(Head(s)) + textLength(Tail(s))

\* accLen after the first i characters
RECURSIVE accLenAt(_, _)
accLenAt(s, i) == IF i = 0 THEN 0 ELSE accLenAt(s, i - 1) + charLength(s[i])

\* start and end in units of 1/Scale column (tableCustom passes cellWidth);
\* end = NoNum is an omitted end
textSubstring(s, start, end) ==
  LET keep(i) == /\ accLenAt(s, i) * Scale > start
                 /\ (end = NoNum \/ end = 0 \/ accLenAt(s, i) * Scale <= end)
      RECURSIVE from(_)
      from(i) == IF i > Len(s) THEN <<>>
                 ELSE (IF keep(i) THEN <<s[i]>> ELSE <<>>) \o from(i + 1)
  IN  from(1)

isKey(key, of) == key \in of

(***************************************************************************)
(* The command table and the output buffer                                 *)
(***************************************************************************)
\* _.EOL
EOL == 10

\* the names _.BARCODE_FORMAT defines
BARCODE_FORMAT ==
  {"BARCODE_TXT_OFF", "BARCODE_TXT_ABV", "BARCODE_TXT_BLW", "BARCODE_TXT_BTH",
   "BARCODE_FONT_A", "BARCODE_FONT_B",
   "BARCODE_UPC_A", "BARCODE_UPC_E", "BARCODE_EAN13", "BARCODE_EAN8",
   "BARCODE_CODE39", "BARCODE_ITF", "BARCODE_NW7", "BARCODE_CODE93",
   "BARCODE_CODE128"}

\* the keys of _.BARCODE_FORMAT.BARCODE_WIDTH
BARCODE_WIDTH == {"1", "2", "3", "4", "5"}

\* the names _.BITMAP_FORMAT defines
BITMAP_FORMAT == {"BITMAP_S8", "BITMAP_D8", "BITMAP_S24", "BITMAP_D24"}

\* _.MODEL.QSPRINTER.CODE2D_FORMAT.LEN_OFFSET
LEN_OFFSET == 3

\* table[key]: the command's name, or undefined
lookup(tableName, table, key) ==
  IF isKey(key, table) THEN tableName \o "." \o key ELSE Undefined

\* One fragment per write: cmd names what was written, num is its numeric
\* argument, data its characters or bytes, by the call that wrote it.
Frag(cmd, num, chars) == [cmd |-> cmd, num |-> num, data |-> chars, by |-> 0]

\* "undefined" as a string
UndefinedString == <<117, 110, 100, 101, 102, 105, 110, 101, 100>>

\* MutableBuffer.write(x) of a command, a string or undefined: anything
\* that is no buffer or array is written as the string it converts to
write(x) == IF x = Undefined THEN Frag("string", NoNum, UndefinedString)
            ELSE Frag(x, NoNum, <<>>)
writeString(chars) == Frag("string", NoNum, chars)
writeBytes(bytes) == Frag("bytes", NoNum, bytes)
writeUInt8(n) == Frag("UInt8", n, <<>>)
writeUInt16LE(n) == Frag("UInt16LE", n, <<>>)
\* iconv.encode(chars, enc) written: the codec is not modelled, the fragment
\* holds the characters handed to it
writeEncoded(chars, enc) == Frag("iconv." \o enc, NoNum, chars)

Tag(frags, id) == [i \in 1..Len(frags) |-> [frags[i] EXCEPT !.by = id]]

(***************************************************************************)
(* Printer.barcode                                                         *)
(***************************************************************************)
\* JavaScript's true and false where a value may also be undefined
JsTrue == "<true>"
JsFalse == "<false>"

\* whether if (v) takes its branch
truthy(v) == v \notin {Undefined, JsFalse}

\* a || b
orElse(a, b) == IF truthy(a) THEN a ELSE b

\* optionsOrLegacy is [typeof0, first, height, position, font]: the type of
\* its first element, the width, height and includeParity properties of that
\* element when it is an object, and the three elements after it
isLegacyBarcodeOptions(optionsOrLegacy) == optionsOrLegacy.typeof0 = "object"

EAN13Length == 12
EAN8Length == 7

\* lines 446-458: the options, or a TypeError: outside the legacy branch
\* options is optionsOrLegacy[0], which is undefined or a primitive, and
\* line 456 reads or creates a property of it (the module is strict).  In
\* the legacy branch options.width is the first element itself, an object,
\* which line 477 converts to the property key "[object Object]"; no line
\* reads a property of that object.  includeParity is the true of line 453
\* after the || true of line 458.
barcodeOptions(optionsOrLegacy) ==
  IF isLegacyBarcodeOptions(optionsOrLegacy)
  THEN [thrown |-> "none",
        width |-> "[object Object]",
        height |-> optionsOrLegacy.height,
        position |-> IF optionsOrLegacy.position = Undefined THEN "blw"
                     ELSE optionsOrLegacy.position,
        font |-> IF optionsOrLegacy.font = Undefined THEN "a"
                 ELSE optionsOrLegacy.font,
        includeParity |-> truthy(orElse(JsTrue, JsTrue))]
  ELSE [thrown |-> "TypeError", width |-> Undefined, height |-> NoNum,
        position |-> Undefined, font |-> Undefined, includeParity |-> TRUE]

\* lines 463-471: what the validation raises
barcodeValidate(convertCode, type) ==
  IF type = Undefined THEN "TypeError"
  ELSE IF type = "EAN13" /\ Len(convertCode) # EAN13Length THEN "Error"
  ELSE IF type = "EAN8" /\ Len(convertCode) # EAN8Length THEN "Error"
  ELSE "none"

normalizedType(type) ==
  LET t == upperCase(type)
  IN  IF t = "UPC-A" THEN "UPC_A" ELSE IF t = "UPC-E" THEN "UPC_E" ELSE t

\* lines 472-500: the fragments before the symbology select
barcodePreamble(m, opts) ==
  (IF m = "qsprinter" THEN <<write("MODEL.QSPRINTER.BARCODE_MODE.ON")>> ELSE <<>>)
  \o (IF m = "qsprinter" THEN <<>>
      ELSE IF isKey(opts.width, BARCODE_WIDTH)
           THEN <<write("BARCODE_FORMAT.BARCODE_WIDTH." \o opts.width)>>
           ELSE <<write("BARCODE_FORMAT.BARCODE_WIDTH_DEFAULT")>>)
  \o (IF opts.height >= 1 /\ opts.height <= 255
      THEN <<Frag("BARCODE_FORMAT.BARCODE_HEIGHT", opts.height, <<>>)>>
      ELSE IF m = "qsprinter"
           THEN <<write("MODEL.QSPRINTER.BARCODE_HEIGHT_DEFAULT")>>
           ELSE <<write("BARCODE_FORMAT.BARCODE_HEIGHT_DEFAULT")>>)
  \o (IF m = "qsprinter" THEN <<>>
      ELSE <<write(lookup("BARCODE_FORMAT", BARCODE_FORMAT,
                          "BARCODE_FONT_" \o upperCase(opts.font)))>>)
  \o <<write(lookup("BARCODE_FORMAT", BARCODE_FORMAT,
                    "BARCODE_TXT_" \o upperCase(opts.position)))>>

\* lines 502-517: the symbology select and the payload
barcodePayload(convertCode, type, opts) ==
  LET parityBit == IF opts.includeParity /\ (type = "EAN13" \/ type = "EAN8")
                   THEN getParityBit(convertCode) ELSE <<>>
      codeLen == IF type = "CODE128" \/ type = "CODE93"
                 THEN codeLength(convertCode) ELSE <<>>
  IN  <<write(lookup("BARCODE_FORMAT", BARCODE_FORMAT,
                     "BARCODE_" \o normalizedType(type))),
        writeString(codeLen \o convertCode
                    \o (IF opts.includeParity THEN parityBit ELSE <<>>) \o <<0>>)>>

barcodeTrailer_always(m) == <<write("MODEL.QSPRINTER.BARCODE_MODE.OFF")>>

\* lines 518-520
barcodeTrailer(m) ==
  IF m = "qsprinter" THEN <<write("MODEL.QSPRINTER.BARCODE_MODE.OFF")>> ELSE <<>>

\* Printer.barcode(code, type, ...optionsOrLegacy): what it raises and the
\* fragments it has written by then
barcode(m, code, type, optionsOrLegacy) ==
  LET opts == barcodeOptions(optionsOrLegacy)
      convertCode == code
      invalid == barcodeValidate(convertCode, type)
  IN  IF opts.thrown # "none" THEN [thrown |-> opts.thrown, out |-> <<>>]
      ELSE IF invalid # "none" THEN [thrown |-> invalid, out |-> <<>>]
      ELSE [thrown |-> "none",
            out |-> barcodePreamble(m, opts)
                    \o barcodePayload(convertCode, type, opts)
                    \o barcodeTrailer(m)]

(***************************************************************************)
(* Printer.qrcode (version, level and size omitted)                        *)
(***************************************************************************)
\* content is a string given by its runs [ch, n]: n times the character ch
RECURSIVE stringLength(_)
stringLength(content) ==
  IF content = <<>> THEN 0 ELSE Head(content).n + stringLength(Tail(content))

\* bytes of one BMP character in UTF-8
utf8Bytes(ch) == IF ch < 128 THEN 1 ELSE IF ch < 2048 THEN 2 ELSE 3

\* the bytes of one BMP character in UTF-8
utf8Char(ch) ==
  IF ch < 128 THEN <<ch>>
  ELSE IF ch < 2048 THEN <<192 + (ch \div 64), 128 + (ch % 64)>>
  ELSE <<224 + (ch \div 4096), 128 + ((ch \div 64) % 64), 128 + (ch % 64)>>

RECURSIVE utf8Encode(_)
\* the bytes MutableBuffer.write(string) appends: the string in UTF-8
utf8Encode(chars) ==
  IF chars = <<>> THEN <<>>
  ELSE IF Len(chars) = 1 THEN utf8Char(chars[1])
  ELSE LET half == Len(chars) \div 2
       IN  utf8Encode(SubSeq(chars, 1, half))
           \o utf8Encode(SubSeq(chars, half + 1, Len(chars)))

\* iconv.encode(content, 'utf8').length
RECURSIVE utf8Length(_)
utf8Length(content) ==
  IF content = <<>> THEN 0
  ELSE Head(content).n * utf8Bytes(Head(content).ch) + utf8Length(Tail(content))

\* the bytes of the content, written: num counts them
writeContent(nbytes) == Frag("content", nbytes, <<>>)

QRMaxBytes == 2710

\* line 545
qrcodeInvalid(dataRawLength) == dataRawLength < 1 /\ dataRawLength > QRMaxBytes

qrcode(m, content) ==
  IF m # "qsprinter"
  THEN [thrown |-> "none",
        out |-> <<write("CODE2D_FORMAT.TYPE_QR"),
                  write("CODE2D_FORMAT.CODE2D"),
                  writeUInt8(3),
                  write("CODE2D_FORMAT.QR_LEVEL_L"),
                  writeUInt8(6),
                  writeUInt16LE(stringLength(content)),
                  writeContent(utf8Length(content))>>]
  ELSE LET dataRawLength == utf8Length(content)
       IN  IF qrcodeInvalid(dataRawLength) THEN [thrown |-> "Error", out |-> <<>>]
           ELSE [thrown |-> "none",
                 out |-> <<write("MODEL.QSPRINTER.CODE2D_FORMAT.PIXEL_SIZE.CMD"),
                           Frag("UInt8", NoNum, <<>>),
                           write("MODEL.QSPRINTER.CODE2D_FORMAT.VERSION.CMD"),
                           Frag("UInt8", NoNum, <<>>),
                           write("MODEL.QSPRINTER.CODE2D_FORMAT.LEVEL.CMD"),
                           write("MODEL.QSPRINTER.CODE2D_FORMAT.LEVEL.OPTIONS.L"),
                           write("MODEL.QSPRINTER.CODE2D_FORMAT.SAVEBUF.CMD_P1"),
                           writeUInt16LE(dataRawLength + LEN_OFFSET),
                           write("MODEL.QSPRINTER.CODE2D_FORMAT.SAVEBUF.CMD_P2"),
                           writeContent(dataRawLength),
                           write("MODEL.QSPRINTER.CODE2D_FORMAT.PRINTBUF.CMD_P1"),
                           writeUInt16LE(dataRawLength + LEN_OFFSET),
                           write("MODEL.QSPRINTER.CODE2D_FORMAT.PRINTBUF.CMD_P2")>>]

(***************************************************************************)
(* PrintImage                                                              *)
(***************************************************************************)
\* A PrintImage is [isPrintImage, width, height, data]: size.width,
\* size.height and data, the ink mask, row-major.

\* Math.ceil(a / b)
ceilDiv(a, b) == (a + b - 1) \div b

bit_lsbFirst(j) == 2 ^ j

\* 0x80 >> j
bit(j) == 128 \div (2 ^ j)

\* this.data[k], k from 0: undefined (falsy) outside the array
dataAt(img, k) == IF k >= 0 /\ k < Len(img.data) THEN img.data[k + 1] ELSE FALSE

RECURSIVE sumBits(_, _)
\* the byte after its eight += : the sum of bit(j) over the j in j0..7 for
\* which on[j]
sumBits(on, j0) ==
  IF j0 > 7 THEN 0 ELSE (IF on[j0] THEN bit(j0) ELSE 0) + sumBits(on, j0 + 1)

\* lines 53-71: line block y (from 0) of toBitmap
bitmapLine(img, density, y) ==
  LET c == density \div 8
  IN  [i1 \in 1..(img.width * c) |->
         LET i == i1 - 1
             x == i \div c
             on == [j \in 0..7 |->
                      LET b == (i % c) * 8 + j
                          l == y * density + b
                      IN  l < img.height /\ dataAt(img, l * img.width + x)]
         IN  sumBits(on, 0)]

toBitmap(img, density) ==
  LET n == ceilDiv(img.height, density)
  IN  [data |-> [y1 \in 1..n |-> bitmapLine(img, density, y1 - 1)],
       density |-> density]

toRaster(img) ==
  LET n == ceilDiv(img.width, 8)
  IN  [data |-> [k1 \in 1..(img.height * n) |->
                   LET y == (k1 - 1) \div n
                       x == (k1 - 1) % n
                       on == [b \in 0..7 |->
                                x * 8 + b < img.width
                                /\ dataAt(img, y * img.width + x * 8 + b)]
                   IN  sumBits(on, 0)],
       width |-> n,
       height |-> img.height]

(***************************************************************************)
(* Printer.image                                                           *)
(***************************************************************************)
\* Printer.lineSpace(n), n = NoNum when omitted
lineSpace(n) ==
  IF n = NoNum THEN <<write("LINE_SPACING.LS_DEFAULT")>>
  ELSE <<write("LINE_SPACING.LS_SET"), writeUInt8(n)>>

RECURSIVE imageLines(_, _, _)
\* lines 602-607, one bitmap line after the other
imageLines(header, n, ls) ==
  IF ls = <<>> THEN <<>>
  ELSE <<write(header), writeUInt16LE(Len(Head(ls)) \div n),
         writeBytes(Head(ls)), writeString(<<EOL>>)>>
       \o imageLines(header, n, Tail(ls))

\* lines 596-607: image() up to its await
imageBeforeDelay(img, density) ==
  IF ~img.isPrintImage THEN [thrown |-> "TypeError", out |-> <<>>]
  ELSE LET n == IF upperCase(density) \in {"D8", "S8"} THEN 1 ELSE 3
           header == lookup("BITMAP_FORMAT", BITMAP_FORMAT,
                            "BITMAP_" \o upperCase(density))
           bm == toBitmap(img, n * 8)
       IN  [thrown |-> "none",
            out |-> lineSpace(0) \o imageLines(header, n, bm.data)]

\* line 613: image() after its await
imageAfterDelay == lineSpace(NoNum)

(***************************************************************************)
(* Printer.tableCustom                                                     *)
(***************************************************************************)
\* A cell is [text, align, style, width, cols]: align and style are
\* Undefined when absent, width is NoNum when absent and obj.width * Scale
\* otherwise, cols is NoNum when absent.  cellWidth is kept times Scale.

\* Math.floor(a / b), b > 0
floorDiv(a, b) == IF a >= 0 THEN a \div b ELSE -((b - 1 - a) \div b)

\* the iterations of for (s = 0; s < num / den; s++)
loopCount(num, den) == IF num <= 0 THEN 0 ELSE ceilDiv(num, den)

\* a command of the table inside lineStr: not a character
Escape(name) ==
  CASE name = "TXT_BOLD_ON" -> -1
    [] name = "TXT_BOLD_OFF" -> -2
    [] name = "TXT_ITALIC_ON" -> -3
    [] name = "TXT_ITALIC_OFF" -> -4
    [] name = "TXT_UNDERL_OFF" -> -5
    [] name = "TXT_CUSTOM_SIZE" -> -6
    [] name = "TXT_NORMAL" -> -7

\* _getStyle of the mnemonics 'B', 'I' and 'NORMAL'
getStyle(style) ==
  <<Escape(IF upperCase(style) = "B" THEN "TXT_BOLD_ON" ELSE "TXT_BOLD_OFF"),
    Escape(IF upperCase(style) = "I" THEN "TXT_ITALIC_ON" ELSE "TXT_ITALIC_OFF"),
    Escape("TXT_UNDERL_OFF")>>

Spaces(n) == Repeat(32, n)

\* lines 199-202: the text of a cell with its style
styledText(obj, text) ==
  IF text = <<>> THEN <<>>
  ELSE IF obj.style # Undefined
       THEN getStyle(obj.style) \o text \o getStyle("NORMAL")
       ELSE text

overflows_never(cellWidth, len) == FALSE

\* line 190
overflows(cellWidth, len) == cellWidth < len * Scale

takesLeftover_never(align, leftoverSpace) == FALSE

\* lines 207 and 225: the cell adds the leftover columns to its padding
takesLeftover(align, leftoverSpace) == align # "CENTER" /\ leftoverSpace > 0

\* line 224: Math.floor(cellWidth - textLength)
leftPadding(cellWidth, len) == floorDiv(cellWidth - len * Scale, Scale)

\* lines 177-240: one cell.  st is the state of the loop: cellWidth,
\* leftoverSpace, lineStr, secondLineEnabled, secondLine, and what was
\* rendered for each cell
tableCell(obj, baseWidth, w, st) ==
  LET align == upperCase(IF obj.align = Undefined THEN "left" ELSE obj.align)
      len == textLength(obj.text)
      cellWidth == IF obj.width # NoNum THEN baseWidth * obj.width
                   ELSE IF obj.cols # NoNum /\ obj.cols # 0
                        THEN (obj.cols * Scale) \div w
                        ELSE st.cellWidth
      leftover0 == IF obj.width = NoNum /\ obj.cols # NoNum /\ obj.cols # 0
                   THEN 0 ELSE st.leftoverSpace
      over == overflows(cellWidth, len)
      text == IF over THEN textSubstring(obj.text, 0, cellWidth) ELSE obj.text
      shown == styledText(obj, text)
      centre == cellWidth - len * Scale
      takes == takesLeftover(align, leftover0)
      piece ==
        IF align = "CENTER"
        THEN Spaces(loopCount(centre, 2 * Scale)) \o shown
             \o Spaces(loopCount(centre - 2 * Scale, 2 * Scale))
        ELSE IF align = "RIGHT"
        THEN Spaces(loopCount(cellWidth - len * Scale
                              + (IF takes THEN leftover0 * Scale ELSE 0), Scale))
             \o shown
        ELSE shown
             \o Spaces(Max(0, leftPadding(cellWidth, len)
                              + (IF takes THEN leftover0 ELSE 0)))
      rest == IF over THEN textSubstring(obj.text, cellWidth, NoNum) ELSE <<>>
  IN  [cellWidth |-> cellWidth,
       leftoverSpace |-> IF takes THEN 0 ELSE leftover0,
       lineStr |-> st.lineStr \o piece,
       secondLineEnabled |-> st.secondLineEnabled \/ over,
       secondLine |-> Append(st.secondLine, [obj EXCEPT !.text = rest]),
       rendered |-> Append(st.rendered,
                           [text |-> text, piece |-> piece, cellWidth |-> cellWidth,
                            len |-> len, over |-> over])]

RECURSIVE tableCells(_, _, _, _, _)
\* lines 176-241: the loop over the cells, from cell i
tableCells(cs, i, baseWidth, w, st) ==
  IF i > Len(cs) THEN st
  ELSE tableCells(cs, i + 1, baseWidth, w, tableCell(cs[i], baseWidth, w, st))

\* lines 168-256: one invocation, up to the write of its line.  size is
\* options.size, deviceWidth is this.width
tableLine(cs, size, deviceWidth) ==
  LET w == size[1]
      h == size[2]
      baseWidth == deviceWidth \div w
      cellWidth == baseWidth \div Len(cs)
      st == tableCells(cs, 1, baseWidth, w,
                       [cellWidth |-> cellWidth * Scale,
                        leftoverSpace |-> baseWidth - cellWidth * Len(cs),
                        lineStr |-> <<>>,
                        secondLineEnabled |-> FALSE,
                        secondLine |-> <<>>,
                        rendered |-> <<>>])
  IN  [lineStr |-> IF w > 1 \/ h > 1
                   THEN <<Escape("TXT_CUSTOM_SIZE")>> \o st.lineStr
                        \o <<Escape("TXT_NORMAL")>>
                   ELSE st.lineStr,
       cellsStr |-> st.lineStr,
       secondLineEnabled |-> st.secondLineEnabled,
       secondLine |-> st.secondLine,
       rendered |-> st.rendered]

(***************************************************************************)
(* The session: calls a caller may issue, in any order                     *)
(***************************************************************************)
MaxCalls == 2

Digits(n) == [i \in 1..n |-> 48 + (i % 10)]

\* the properties of an object that has none of them
NoProperties == [width |-> Undefined, height |-> NoNum, includeParity |-> Undefined]

NoOptions == [typeof0 |-> "undefined", first |-> NoProperties, height |-> NoNum,
              position |-> Undefined, font |-> Undefined]
EmptyOptions == [typeof0 |-> "object", first |-> NoProperties, height |-> NoNum,
                 position |-> Undefined, font |-> Undefined]
FullOptions == [typeof0 |-> "object", first |-> NoProperties, height |-> 50,
                position |-> "abv", font |-> "b"]
LegacyOptions == [typeof0 |-> "number", first |-> NoProperties, height |-> 50,
                  position |-> "abv", font |-> "b"]

\* barcode(code, type, {width: w, height: h, includeParity: p})
ObjectOptions(w, h, p) ==
  [EmptyOptions EXCEPT !.first = [width |-> w, height |-> h, includeParity |-> p]]

\* the barcode calls issued: [code, type, optionsOrLegacy]
BarcodeCalls ==
  ( { [code |-> Digits(cl.len), type |-> cl.type, optionsOrLegacy |-> EmptyOptions] :
        cl \in { [len |-> EAN13Length, type |-> Undefined],
                 [len |-> EAN13Length - 1, type |-> "EAN13"],
                 [len |-> EAN13Length, type |-> "EAN13"],
                 [len |-> EAN13Length + 1, type |-> "EAN13"],
                 [len |-> EAN8Length, type |-> "EAN8"],
                 [len |-> EAN8Length + 1, type |-> "EAN8"],
                 [len |-> EAN8Length, type |-> "CODE128"],
                 [len |-> EAN13Length - 1, type |-> "UPC-A"],
                 [len |-> EAN8Length, type |-> "QRCODE"] } } )
  \cup
  ( { [code |-> Digits(EAN13Length), type |-> "EAN13", optionsOrLegacy |-> o] :
        o \in {NoOptions, FullOptions, LegacyOptions} } )

QrContents ==
  { <<>>,
    <<[ch |-> 20013, n |-> 2], [ch |-> 233, n |-> 1]>>,
    <<[ch |-> 97, n |-> QRMaxBytes]>>,
    <<[ch |-> 97, n |-> QRMaxBytes + 1]>> }

NotAnImage == [isPrintImage |-> FALSE, width |-> 0, height |-> 0, data |-> <<>>]
Dot == [isPrintImage |-> TRUE, width |-> 1, height |-> 1, data |-> <<TRUE>>]
Strip == [isPrintImage |-> TRUE, width |-> 2, height |-> 9,
          data |-> [k \in 1..18 |-> k % 3 = 0]]

ImageCalls == { [image |-> NotAnImage, density |-> "d24"],
                [image |-> Dot, density |-> "d24"],
                [image |-> Strip, density |-> "d8"] }

NoCall == [op |-> "none", id |-> 0, code |-> <<>>, type |-> Undefined,
           typeof0 |-> "undefined", first |-> NoProperties, rest |-> NoNum,
           bytes |-> 0, units |-> 0]

Snapshot == [buffer |-> buffer, encoding |-> encoding, width |-> width, model |-> _model]

pureVars == <<str, parity, image, raster, bitmap,
              data, options, cells, depth, row, pc>>

SessionInit ==
  /\ buffer = <<>>
  /\ encoding = "GB18030"
  /\ width = 48
  /\ _model = Undefined
  /\ pending = <<>>
  /\ thrown = "none"
  /\ call = NoCall
  /\ before = [buffer |-> <<>>, encoding |-> "GB18030", width |-> 48, model |-> Undefined]
  /\ ncalls = 0

\* a call that writes: its fragments are appended, what it raised is kept
Issue(c, r) ==
  /\ ncalls < MaxCalls
  /\ ncalls' = ncalls + 1
  /\ before' = Snapshot
  /\ call' = [c EXCEPT !.id = ncalls + 1]
  /\ thrown' = r.thrown
  /\ buffer' = buffer \o Tag(r.out, ncalls + 1)

\* model(model)
SetModel ==
  \E m \in {Undefined, "qsprinter"} :
    /\ _model' = m
    /\ before' = Snapshot
    /\ call' = [NoCall EXCEPT !.op = "model"]
    /\ thrown' = "none"
    /\ UNCHANGED <<buffer, encoding, width, pending, ncalls>>

Text ==
  \E content \in { <<65, 66>> } :
    /\ Issue([NoCall EXCEPT !.op = "text"],
             [thrown |-> "none", out |-> <<writeEncoded(content \o <<EOL>>, encoding)>>])
    /\ UNCHANGED <<encoding, width, _model, pending>>

Barcode ==
  \E b \in BarcodeCalls :
    /\ Issue([NoCall EXCEPT !.op = "barcode", !.code = b.code, !.type = b.type,
                            !.typeof0 = b.optionsOrLegacy.typeof0,
                            !.first = b.optionsOrLegacy.first,
                            !.rest = b.optionsOrLegacy.height],
             barcode(_model, b.code, b.type, b.optionsOrLegacy))
    /\ UNCHANGED <<encoding, width, _model, pending>>

Qrcode ==
  \E content \in QrContents :
    /\ Issue([NoCall EXCEPT !.op = "qrcode", !.bytes = utf8Length(content),
                            !.units = stringLength(content)],
             qrcode(_model, content))
    /\ UNCHANGED <<encoding, width, _model, pending>>

\* image() runs to its await and returns a promise; the call is suspended
\* unless it raised
Image ==
  \E i \in ImageCalls :
    LET r == imageBeforeDelay(i.image, i.density)
    IN  /\ Issue([NoCall EXCEPT !.op = "image"], r)
        /\ pending' = IF r.thrown = "none" THEN Append(pending, ncalls + 1) ELSE pending
        /\ UNCHANGED <<encoding, width, _model>>

\* the timer of the oldest suspended image() fires
ImageResume ==
  /\ pending # <<>>
  /\ buffer' = buffer \o Tag(imageAfterDelay, Head(pending))
  /\ pending' = Tail(pending)
  /\ UNCHANGED <<encoding, width, _model, thrown, call, before, ncalls>>

Init ==
  /\ SessionInit
  /\ str = <<>> /\ parity = <<>>
  /\ image = NotAnImage /\ raster = <<>> /\ bitmap = <<>>
  /\ data = <<>> /\ options = 1 /\ cells = <<>>
  /\ depth = 0 /\ row = <<>>
  /\ pc = "session"

Next ==
  \/ SetModel /\ UNCHANGED pureVars
  \/ Text /\ UNCHANGED pureVars
  \/ Barcode /\ UNCHANGED pureVars
  \/ Qrcode /\ UNCHANGED pureVars
  \/ Image /\ UNCHANGED pureVars
  \/ ImageResume /\ UNCHANGED pureVars

Spec == Init /\ [][Next]_vars

(***************************************************************************)
(* Properties of the session                                               *)
(***************************************************************************)
\* the fragments call id wrote, in order
FragsOf(id) == SelectSeq(buffer, LAMBDA f : f.by = id)

\* the last call left the stream and the session state as they were
Untouched ==
  /\ FragsOf(call.id) = <<>>
  /\ Len(buffer) >= Len(before.buffer)
  /\ SubSeq(buffer, 1, Len(before.buffer)) = before.buffer
  /\ encoding = before.encoding
  /\ width = before.width
  /\ _model = before.model

BadBarcodeInput ==
  \/ call.type = Undefined
  \/ call.type = "EAN13" /\ Len(call.code) # 12
  \/ call.type = "EAN8" /\ Len(call.code) # 7

\* C1: a barcode call with no type, an EAN13 payload that is not 12 characters
\* or an EAN8 payload that is not 7 raises, with no byte appended and the
\* session state unchanged; an EAN13 call with 12 digits succeeds.
C1_BarcodeValidation ==
  call.op = "barcode" =>
    /\ BadBarcodeInput => thrown # "none" /\ Untouched
    /\ (call.type = "EAN13" /\ Len(call.code) = 12) => thrown = "none"

\* The raising half of C1 alone: it holds whatever the options are.
BarcodeRaisesBeforeBytes ==
  (call.op = "barcode" /\ BadBarcodeInput) => thrown # "none" /\ Untouched

SupportedSymbology(type) ==
  type # Undefined /\ ("BARCODE_" \o normalizedType(type)) \in BARCODE_FORMAT

\* C2: a barcode call with an unsupported symbology raises before any byte of
\* the call is appended.
C2_UnsupportedSymbologyRaises ==
  (call.op = "barcode" /\ call.type # Undefined /\ ~SupportedSymbology(call.type))
    => thrown # "none" /\ Untouched

\* C3: on qsprinter, a qrcode call whose content is 0 bytes or more than 2710
\* bytes of UTF-8 raises before any byte of the call is appended.
C3_QrcodeLengthRaises ==
  (/\ call.op = "qrcode"
   /\ before.model = "qsprinter"
   /\ (call.bytes = 0 \/ call.bytes > 2710))
    => thrown # "none" /\ Untouched

\* C4: the restore of the default line spacing immediately follows the last
\* fragment its image call wrote before the delay, and the fragments of a call
\* all precede those of every call issued after it.
C4_ImageProgramOrder ==
  /\ \A i \in 1..Len(buffer) :
       buffer[i].cmd = "LINE_SPACING.LS_DEFAULT" =>
         i > 1 /\ buffer[i - 1].by = buffer[i].by
  /\ \A i, j \in 1..Len(buffer) : i < j => buffer[i].by <= buffer[j].by

ModeOn == "MODEL.QSPRINTER.BARCODE_MODE.ON"
ModeOff == "MODEL.QSPRINTER.BARCODE_MODE.OFF"

\* what a fragment of a barcode call is
FragKind(f) ==
  CASE f.cmd = ModeOn -> "mode-enable"
    [] f.cmd = ModeOff -> "mode-disable"
    [] f.cmd \in ({"BARCODE_FORMAT.BARCODE_WIDTH_DEFAULT"}
                  \cup {"BARCODE_FORMAT.BARCODE_WIDTH." \o k : k \in BARCODE_WIDTH})
         -> "width"
    [] f.cmd \in {"BARCODE_FORMAT.BARCODE_HEIGHT",
                  "BARCODE_FORMAT.BARCODE_HEIGHT_DEFAULT",
                  "MODEL.QSPRINTER.BARCODE_HEIGHT_DEFAULT"} -> "height"
    [] f.cmd \in {"BARCODE_FORMAT.BARCODE_FONT_A", "BARCODE_FORMAT.BARCODE_FONT_B"}
         -> "font"
    [] f.cmd \in {"BARCODE_FORMAT.BARCODE_TXT_OFF", "BARCODE_FORMAT.BARCODE_TXT_ABV",
                  "BARCODE_FORMAT.BARCODE_TXT_BLW", "BARCODE_FORMAT.BARCODE_TXT_BTH"}
         -> "position"
    [] f.cmd \in {"BARCODE_FORMAT.BARCODE_" \o t :
                    t \in {"UPC_A", "UPC_E", "EAN13", "EAN8", "CODE39", "ITF",
                           "NW7", "CODE93", "CODE128"}} -> "select"
    [] f.cmd = "string" /\ f.data # <<>> /\ f.data[Len(f.data)] = 0 -> "payload"
    [] OTHER -> "other"

Kinds(frags) == [i \in 1..Len(frags) |-> FragKind(frags[i])]

\* the mode-enable and mode-disable fragments of the stream, in order
ModeSwitches ==
  SelectSeq(Kinds(buffer), LAMBDA k : k \in {"mode-enable", "mode-disable"})

\* a barcode call that returned, for a symbology the command table has
SuccessfulBarcode ==
  call.op = "barcode" /\ thrown = "none" /\ SupportedSymbology(call.type)

\* C10: a successful barcode call writes, in this order, mode-enable, height,
\* position, select, payload with NUL, mode-disable on qsprinter, and width,
\* height, font, position, select, payload with NUL on any other model; the
\* mode-enable and mode-disable of the stream alternate and are balanced.
C10_BarcodeFraming ==
  /\ SuccessfulBarcode =>
       Kinds(FragsOf(call.id)) =
         IF before.model = "qsprinter"
         THEN <<"mode-enable", "height", "position", "select", "payload",
                "mode-disable">>
         ELSE <<"width", "height", "font", "position", "select", "payload">>
  /\ Len(ModeSwitches) % 2 = 0
  /\ \A i \in 1..Len(ModeSwitches) :
       ModeSwitches[i] = IF i % 2 = 1 THEN "mode-enable" ELSE "mode-disable"

\* two successful barcode calls on qsprinter, one after the other
C10_Witness ==
  /\ SuccessfulBarcode
  /\ before.model = "qsprinter"
  /\ Len(ModeSwitches) = 4

\* the 16-bit length fields and the content fragments the last call wrote
LengthFields == SelectSeq(FragsOf(call.id), LAMBDA f : f.cmd = "UInt16LE")
ContentsWritten == SelectSeq(FragsOf(call.id), LAMBDA f : f.cmd = "content")

\* C14: on a model other than qsprinter the 16-bit length field of a qrcode
\* call is the number of content bytes appended after it; on qsprinter the
\* save-to-buffer and print-from-buffer commands carry the same 16-bit value,
\* the UTF-8 length of the content plus the offset.
C14_QrcodeLengthField ==
  (call.op = "qrcode" /\ thrown = "none") =>
    /\ Len(ContentsWritten) = 1
    /\ ContentsWritten[1].num = call.bytes
    /\ IF before.model # "qsprinter"
       THEN /\ Len(LengthFields) = 1
            /\ LengthFields[1].num = ContentsWritten[1].num
       ELSE /\ Len(LengthFields) = 2
            /\ LengthFields[1].num = call.bytes + LEN_OFFSET
            /\ LengthFields[2].num = LengthFields[1].num

\* What the code does: on qsprinter as claimed; on any other model the length
\* field is the number of UTF-16 code units of the content, which is the
\* number of bytes only when every character encodes to one byte.
QrcodeLengthInCodeUnits ==
  (call.op = "qrcode" /\ thrown = "none") =>
    IF before.model # "qsprinter"
    THEN /\ Len(LengthFields) = 1
         /\ LengthFields[1].num = call.units
         /\ (call.units = call.bytes => LengthFields[1].num = ContentsWritten[1].num)
    ELSE /\ Len(LengthFields) = 2
         /\ LengthFields[1].num = call.bytes + LEN_OFFSET
         /\ LengthFields[2].num = LengthFields[1].num

(***************************************************************************)
(* Printer.barcode with the options a caller may pass                      *)
(***************************************************************************)
\* the barcode calls issued: [code, type, optionsOrLegacy]
BarcodeOptionCalls ==
  { [code |-> Digits(EAN13Length), type |-> "EAN13", optionsOrLegacy |-> o] :
      o \in { NoOptions, EmptyOptions, FullOptions,
               ObjectOptions(Undefined, NoNum, JsFalse),
               ObjectOptions(Undefined, NoNum, JsTrue),
               ObjectOptions(Undefined, 0, Undefined),
               ObjectOptions(Undefined, 1, Undefined),
               ObjectOptions(Undefined, 255, Undefined),
               ObjectOptions(Undefined, 256, Undefined),
               ObjectOptions("2", NoNum, Undefined),
               ObjectOptions("9", NoNum, Undefined) } }
  \cup
  { [code |-> Digits(EAN8Length), type |-> "EAN8",
     optionsOrLegacy |-> ObjectOptions(Undefined, NoNum, JsFalse)] }
  \cup
  { [code |-> Digits(cl.len), type |-> cl.type, optionsOrLegacy |-> EmptyOptions] :
      cl \in { [len |-> 7, type |-> "CODE128"],
               [len |-> 16, type |-> "CODE128"],
               [len |-> 128, type |-> "CODE128"],
               [len |-> 255, type |-> "CODE128"],
               [len |-> 16, type |-> "CODE93"],
               [len |-> 3, type |-> "CODE39"] } }

BarcodeWithOptions ==
  \E b \in BarcodeOptionCalls :
    /\ Issue([NoCall EXCEPT !.op = "barcode", !.code = b.code, !.type = b.type,
                            !.typeof0 = b.optionsOrLegacy.typeof0,
                            !.first = b.optionsOrLegacy.first,
                            !.rest = b.optionsOrLegacy.height],
             barcode(_model, b.code, b.type, b.optionsOrLegacy))
    /\ UNCHANGED <<encoding, width, _model, pending>>

BarcodeNext ==
  \/ SetModel /\ UNCHANGED pureVars
  \/ BarcodeWithOptions /\ UNCHANGED pureVars

SpecBarcode == Init /\ [][BarcodeNext]_vars

\* the characters of the payload fragments the last call wrote
PayloadsWritten ==
  LET fs == SelectSeq(FragsOf(call.id), LAMBDA f : FragKind(f) = "payload")
  IN  [i \in 1..Len(fs) |-> fs[i].data]

HasChecksum(type) == type \in {"EAN13", "EAN8"}
HasLengthPrefix(type) == type \in {"CODE128", "CODE93"}

\* a barcode call with an options object and a code of the length its type
\* requires
BarcodeWithObject ==
  call.op = "barcode" /\ call.typeof0 = "object" /\ ~BadBarcodeInput

\* C11: a barcode call whose options object has includeParity false writes the
\* code and the NUL with no checksum digit; with includeParity true or absent
\* an EAN13 or EAN8 call writes the code, its checksum digit and the NUL.
C11_ChecksumFlag ==
  (BarcodeWithObject /\ ~HasLengthPrefix(call.type)) =>
    /\ thrown = "none"
    /\ PayloadsWritten =
         << call.code
            \o (IF call.first.includeParity # JsFalse /\ HasChecksum(call.type)
                THEN getParityBit(call.code) ELSE <<>>)
            \o <<0>> >>

\* The half of C11 the code keeps: an EAN13 or EAN8 call with an options
\* object writes the code, its checksum digit and the NUL, whatever the flag.
ChecksumAlwaysWritten ==
  (BarcodeWithObject /\ HasChecksum(call.type)) =>
    PayloadsWritten = << call.code \o getParityBit(call.code) \o <<0>> >>

\* the fragments of kind k the last call wrote
Written(k) == SelectSeq(FragsOf(call.id), LAMBDA f : FragKind(f) = k)

\* C12: a barcode call with an options object (and nothing after it) whose
\* height h is in 1..255 writes the height command of h, and the default
\* height command of the model otherwise; on a model other than qsprinter a
\* width that is a key of the width table selects that width command, and
\* the default width command is written otherwise.
C12_OptionsGovernPreamble ==
  (BarcodeWithObject /\ call.rest = NoNum /\ thrown = "none") =>
    /\ Len(Written("height")) = 1
    /\ LET f == Written("height")[1]
           h == call.first.height
       IN  IF h >= 1 /\ h <= 255
           THEN f.cmd = "BARCODE_FORMAT.BARCODE_HEIGHT" /\ f.num = h
           ELSE f.cmd = IF before.model = "qsprinter"
                        THEN "MODEL.QSPRINTER.BARCODE_HEIGHT_DEFAULT"
                        ELSE "BARCODE_FORMAT.BARCODE_HEIGHT_DEFAULT"
    /\ before.model # "qsprinter" =>
         /\ Len(Written("width")) = 1
         /\ Written("width")[1].cmd =
              IF call.first.width \in BARCODE_WIDTH
              THEN "BARCODE_FORMAT.BARCODE_WIDTH." \o call.first.width
              ELSE "BARCODE_FORMAT.BARCODE_WIDTH_DEFAULT"

\* What the code does instead: the height and width commands of a call with an
\* options object and nothing after it are the defaults, whatever the object
\* holds.
OptionsObjectIgnored ==
  (BarcodeWithObject /\ call.rest = NoNum /\ thrown = "none") =>
    /\ \A i \in 1..Len(Written("height")) :
         Written("height")[i].cmd # "BARCODE_FORMAT.BARCODE_HEIGHT"
    /\ \A i \in 1..Len(Written("width")) :
         Written("width")[i].cmd = "BARCODE_FORMAT.BARCODE_WIDTH_DEFAULT"

\* a barcode call that returned, with a code of 1 to 255 characters
ReturnedBarcode ==
  /\ SuccessfulBarcode
  /\ Len(call.code) >= 1 /\ Len(call.code) <= 255
  /\ Len(PayloadsWritten) = 1

\* the bytes of the code, its checksum digit where the code writes one, and
\* the NUL
PayloadBytes ==
  call.code \o (IF HasChecksum(call.type) THEN getParityBit(call.code) ELSE <<>>)
            \o <<0>>

\* C13: for CODE128 and CODE93 and a code of L characters, 1 <= L <= 255, the
\* bytes written before the code are exactly one byte of value L; for every
\* other symbology the bytes written start with the code.
C13_LengthPrefix ==
  ReturnedBarcode =>
    utf8Encode(PayloadsWritten[1]) =
      (IF HasLengthPrefix(call.type) THEN <<Len(call.code)>> ELSE <<>>)
      \o PayloadBytes

\* The part of C13 the code keeps: the prefix is the one byte L for
\* 16 <= L <= 127, and the other symbologies have no prefix.
LengthPrefixFromSixteen ==
  (ReturnedBarcode
   /\ (HasLengthPrefix(call.type) => Len(call.code) >= 16 /\ Len(call.code) <= 127))
    => utf8Encode(PayloadsWritten[1]) =
         (IF HasLengthPrefix(call.type) THEN <<Len(call.code)>> ELSE <<>>)
         \o PayloadBytes

\* What the code writes before the code for the other lengths: nothing for
\* L <= 15, the three bytes of U+FFFD for L >= 128.
LengthPrefixElsewhere ==
  (ReturnedBarcode /\ HasLengthPrefix(call.type)) =>
    /\ Len(call.code) <= 15 => utf8Encode(PayloadsWritten[1]) = PayloadBytes
    /\ Len(call.code) >= 128 =>
         utf8Encode(PayloadsWritten[1]) = <<239, 191, 189>> \o PayloadBytes

(***************************************************************************)
(* getParityBit on its own                                                 *)
(***************************************************************************)
MaxDigits == 3

RECURSIVE DigitStrings(_)
\* the strings of exactly n decimal digits
DigitStrings(n) ==
  IF n = 0 THEN {<<>>}
  ELSE {<<d>> \o t : d \in 48..57, t \in DigitStrings(n - 1)}

\* 12-digit payloads: those of two digits, and three printed EAN-13 codes
Payloads ==
  [1..EAN13Length -> {51, 56}]
  \cup { <<52, 48, 48, 54, 51, 56, 49, 51, 51, 51, 57, 51>>,
         <<53, 57, 48, 49, 50, 51, 52, 49, 50, 51, 52, 53>>,
         <<49, 50, 51, 52, 53, 54, 55, 56, 57, 48, 49, 50>> }

ParityInputs == UNION {DigitStrings(n) : n \in 1..MaxDigits} \cup Payloads

ParityInit ==
  /\ SessionInit
  /\ str \in ParityInputs /\ parity = <<>>
  /\ image = NotAnImage /\ raster = <<>> /\ bitmap = <<>>
  /\ data = <<>> /\ options = 1 /\ cells = <<>>
  /\ depth = 0 /\ row = <<>>
  /\ pc = "parity"

GetParityBit ==
  /\ pc = "parity"
  /\ parity' = getParityBit(str)
  /\ pc' = "done"
  /\ UNCHANGED <<sessionVars, str, imageVars, tableVars>>

ParityNext == GetParityBit

SpecParity == ParityInit /\ [][ParityNext]_vars

RECURSIVE WeightedFromRight(_, _)
\* the sum of the digits of s, each times 3 when its position counted from
\* the right (from 1) is odd and times 1 when it is even
WeightedFromRight(s, i) ==
  IF i > Len(s) THEN 0
  ELSE (s[i] - 48) * (IF (Len(s) + 1 - i) % 2 = 1 THEN 3 ELSE 1)
       + WeightedFromRight(s, i + 1)

RECURSIVE Ean13Sum(_, _)
\* the EAN-13 sum of 13 digits: weight 1 at the odd positions from the left,
\* weight 3 at the even ones
Ean13Sum(s, i) ==
  IF i > Len(s) THEN 0
  ELSE (s[i] - 48) * (IF i % 2 = 1 THEN 1 ELSE 3) + Ean13Sum(s, i + 1)

\* C5: getParityBit returns one decimal digit, (10 - (S mod 10)) mod 10 for
\* the weighted sum S, and a 12-digit payload followed by it has an EAN-13
\* sum that is a multiple of 10.
C5_ParityDigit ==
  pc = "done" =>
    /\ Len(parity) = 1
    /\ parity[1] \in 48..57
    /\ parity[1] - 48 = (10 - (WeightedFromRight(str, 1) % 10)) % 10
    /\ Len(str) = 12 => Ean13Sum(str \o parity, 1) % 10 = 0

\* the check digit of 4006381333931 is computed
C5_Witness ==
  /\ pc = "done"
  /\ str = <<52, 48, 48, 54, 51, 56, 49, 51, 51, 51, 57, 51>>
  /\ parity = <<49>>

(***************************************************************************)
(* PrintImage.toRaster and PrintImage.toBitmap on their own                *)
(***************************************************************************)
MaxImageWidth == 9
MaxImageHeight == 25

Densities == {8, 16, 24}

\* the ink masks: none, all, a checkerboard, and single pixels of the first
\* and the last column
InkMasks(w, h) ==
  LET mask(on(_, _)) == [k \in 1..(w * h) |-> on((k - 1) % w, (k - 1) \div w)]
      none(x, y) == FALSE
      all(x, y) == TRUE
      checker(x, y) == (x + y) % 2 = 0
  IN  {mask(none), mask(all), mask(checker)}
      \cup { [k \in 1..(w * h) |-> k - 1 = py * w + px] :
               px \in {0, w - 1} \cap (0..(w - 1)), py \in 0..(h - 1) }

Images ==
  UNION { { [isPrintImage |-> TRUE, width |-> w, height |-> h, data |-> m] :
              m \in InkMasks(w, h) } :
          w \in 0..MaxImageWidth, h \in 0..MaxImageHeight }

ImageInit ==
  /\ SessionInit
  /\ str = <<>> /\ parity = <<>>
  /\ image \in Images /\ raster = <<>> /\ bitmap = <<>>
  /\ data = <<>> /\ options = 1 /\ cells = <<>>
  /\ depth = 0 /\ row = <<>>
  /\ pc = "image"

ToRaster ==
  /\ pc = "image"
  /\ raster' = toRaster(image)
  /\ pc' = "raster"
  /\ UNCHANGED <<sessionVars, parityVars, image, bitmap, tableVars>>

ToBitmap ==
  \E density \in Densities :
    /\ pc = "image"
    /\ bitmap' = toBitmap(image, density)
    /\ pc' = "bitmap"
    /\ UNCHANGED <<sessionVars, parityVars, image, raster, tableVars>>

ImageNext == ToRaster \/ ToBitmap

SpecImage == ImageInit /\ [][ImageNext]_vars

\* the ink mask at pixel (x, y)
Ink(x, y) == image.data[y * image.width + x + 1]

\* bit b of a byte, the most significant bit being bit 0
BitOf(byte, b) == (byte \div (2 ^ (7 - b))) % 2 = 1

\* the least k with k * b >= a
Ceil(a, b) == CHOOSE k \in 0..a : k * b >= a /\ (k = 0 \/ (k - 1) * b < a)

RasterDecodes ==
  LET n == Ceil(image.width, 8)
  IN  /\ raster.width = n
      /\ raster.height = image.height
      /\ Len(raster.data) = image.height * n
      /\ \A y \in 0..(image.height - 1), x \in 0..(n - 1), b \in 0..7 :
           /\ raster.data[y * n + x + 1] \in 0..255
           /\ BitOf(raster.data[y * n + x + 1], b)
                = (x * 8 + b < image.width /\ Ink(x * 8 + b, y))

BitmapDecodes ==
  LET d == bitmap.density
      c == d \div 8
  IN  /\ Len(bitmap.data) = Ceil(image.height, d)
      /\ \A y \in 0..(Len(bitmap.data) - 1) :
           /\ Len(bitmap.data[y + 1]) = image.width * c
           /\ \A x \in 0..(image.width - 1), b \in 0..(d - 1) :
                /\ bitmap.data[y + 1][x * c + (b \div 8) + 1] \in 0..255
                /\ BitOf(bitmap.data[y + 1][x * c + (b \div 8) + 1], b % 8)
                     = (y * d + b < image.height /\ Ink(x, y * d + b))

\* C6: toRaster returns ceil(W/8) as byte width and H * ceil(W/8) bytes,
\* toBitmap(d) returns ceil(H/d) blocks of W * (d/8) bytes, and the bits of
\* either, read most significant first, are the ink mask, with every padding
\* bit zero.
C6_ProjectionsRoundTrip ==
  /\ pc = "raster" => RasterDecodes
  /\ pc = "bitmap" => BitmapDecodes

\* a 9 x 25 mask whose only ink is its last pixel, projected at density 24:
\* two blocks, the ink in the second
C6_Witness ==
  /\ pc = "bitmap"
  /\ bitmap.density = 24
  /\ image.width = 9 /\ image.height = 25
  /\ Len(bitmap.data) = 2
  /\ bitmap.data[2][8 * 3 + 1] = 128
  /\ \A i \in 1..27 : bitmap.data[1][i] = 0

(***************************************************************************)
(* Printer.tableCustom on its own                                          *)
(***************************************************************************)
MaxText == 3
MaxWidth == 4
MaxDepth == 6

TableChars == {65, 20013}

Texts == UNION {[1..n -> TableChars] : n \in 0..MaxText} \cup {<<65, 66>>}

\* the texts of the second cell of a row of two
ShortTexts == {t \in Texts : Len(t) < MaxText}

Cell(text, align, style, w, cols) ==
  [text |-> text, align |-> align, style |-> style, width |-> w, cols |-> cols]

\* what a cell can be besides its text: [align, style, width, cols]
Plain == <<Undefined, Undefined, NoNum, NoNum>>
Formats ==
  { Plain,
    <<"right", Undefined, NoNum, NoNum>>,
    <<"center", Undefined, NoNum, NoNum>>,
    <<"left", "B", NoNum, NoNum>>,
    <<Undefined, Undefined, 1, NoNum>>,
    <<Undefined, Undefined, NoNum, 3>> }

FormatPairs ==
  { <<Plain, Plain>>,
    <<<<"right", Undefined, NoNum, NoNum>>, <<"center", Undefined, NoNum, NoNum>>>>,
    <<<<Undefined, Undefined, NoNum, 3>>, Plain>> }

Rows ==
  { <<Cell(t, f[1], f[2], f[3], f[4])>> : t \in Texts, f \in Formats }
  \cup
  { <<Cell(t1, f[1][1], f[1][2], f[1][3], f[1][4]),
      Cell(t2, f[2][1], f[2][2], f[2][3], f[2][4])>> :
      t1 \in Texts, t2 \in ShortTexts, f \in FormatPairs }

TableSizes == {<<w, 1>> : w \in Sizes} \cup {<<1, 2>>}

\* the rows and sizes rendered: double height for the rows of one cell only
TableInputs ==
  {<<r, size>> \in Rows \X TableSizes : size[2] = 1 \/ Len(r) = 1}

TableInit ==
  /\ buffer = <<>>
  /\ encoding = "GB18030"
  /\ width \in 1..MaxWidth
  /\ _model = Undefined
  /\ pending = <<>>
  /\ thrown = "none"
  /\ call = NoCall
  /\ before = [buffer |-> <<>>, encoding |-> "GB18030", width |-> 48, model |-> Undefined]
  /\ ncalls = 0
  /\ str = <<>> /\ parity = <<>>
  /\ image = NotAnImage /\ raster = <<>> /\ bitmap = <<>>
  /\ \E input \in TableInputs : row = input[1] /\ options = input[2]
  /\ data = row
  /\ cells = <<>>
  /\ depth = 0
  /\ pc = "table"

\* one invocation of tableCustom: the line is written, and the invocation
\* calls itself on secondLine when a cell overflowed
TableCustom ==
  /\ pc = "table"
  /\ depth < MaxDepth
  /\ LET r == tableLine(data, options, width)
     IN  /\ buffer' = Append(buffer, writeEncoded(r.lineStr \o <<EOL>>, encoding))
         /\ cells' = Append(cells, r.rendered)
         /\ data' = r.secondLine
         /\ pc' = IF r.secondLineEnabled THEN "table" ELSE "done"
  /\ depth' = depth + 1
  /\ UNCHANGED <<encoding, width, _model, pending, thrown, call, before, ncalls,
                 parityVars, imageVars, options, row>>

TableNext == TableCustom

SpecTable == TableInit /\ [][TableNext]_vars

RECURSIVE SumWidths(_, _)
\* the display width of the texts of cells i.. of r
SumWidths(r, i) ==
  IF i > Len(r) THEN 0 ELSE textLength(r[i].text) + SumWidths(r, i + 1)

\* the effective width of cell i of the row, times Scale
EffectiveWidth(i) == cells[1][i].cellWidth

Overflows(i) == textLength(row[i].text) * Scale > EffectiveWidth(i)

RECURSIVE ContinuationPieces(_, _)
\* the continuation pieces a text needs in a cell cw / Scale columns wide; a
\* text whose remainder is the text itself needs more pieces than any
\* rendering has lines
ContinuationPieces(text, cw) ==
  IF textLength(text) * Scale <= cw THEN 0
  ELSE IF textSubstring(text, cw, NoNum) = text THEN MaxDepth + 1
  ELSE 1 + ContinuationPieces(textSubstring(text, cw, NoNum), cw)

RECURSIVE MaxFrom(_, _)
\* the largest of the naturals s[i], s[i + 1], ...
MaxFrom(s, i) == IF i > Len(s) THEN 0 ELSE Max(s[i], MaxFrom(s, i + 1))

\* the overflow depth of the row
OverflowDepth ==
  MaxFrom([i \in 1..Len(row) |->
             ContinuationPieces(row[i].text, EffectiveWidth(i))], 1)

RECURSIVE LongestText(_, _)
\* the length of the longest text of cells i.. of r
LongestText(r, i) ==
  IF i > Len(r) THEN 0 ELSE Max(Len(r[i].text), LongestText(r, i + 1))

\* C8: the continuation rows of a row are at most as many as the characters
\* of its longest text.
C8_ContinuationRowsBounded ==
  depth >= 1 => depth - 1 <= LongestText(row, 1)

RECURSIVE PiecesFrom(_, _)
\* the pieces of cell i's text rendered on lines k, k + 1, ..., concatenated
PiecesFrom(i, k) ==
  IF k > Len(cells) THEN <<>> ELSE cells[k][i].text \o PiecesFrom(i, k + 1)

\* the pieces of cell i rendered so far and the text still to render make up
\* the cell's text, and each piece is at most as wide as the cell
PreservesText(i) ==
  /\ PiecesFrom(i, 1) \o data[i].text = row[i].text
  /\ \A k \in 1..Len(cells) :
       textLength(cells[k][i].text) * Scale <= cells[k][i].cellWidth

\* C15: for every cell, the pieces of its text rendered on the first line and
\* on the continuation lines, in order, make up the cell's text (with what is
\* still to render, while the rendering goes on), and every piece is at most
\* as wide as the cell's effective width.
C15_WrappingPreservesText ==
  depth >= 1 => \A i \in 1..Len(row) : PreservesText(i)

\* The part of C15 the code keeps: the cells whose effective width is above
\* zero.
WrappingPreservesTextInCellsWithWidth ==
  depth >= 1 =>
    \A i \in 1..Len(row) : EffectiveWidth(i) > 0 => PreservesText(i)

\* the characters of s that are not commands
Printable(s) == SelectSeq(s, LAMBDA c : c >= 0)

\* s without its last element
Front(s) == SubSeq(s, 1, Len(s) - 1)

RECURSIVE ExpectedLeft(_, _, _, _)
\* cell by cell from cell i: the text, then cw - textLength spaces, the
\* leftover columns added to the first cell's
ExpectedLeft(r, i, cw, leftover) ==
  IF i > Len(r) THEN <<>>
  ELSE r[i].text
       \o Spaces(cw - textLength(r[i].text) + (IF i = 1 THEN leftover ELSE 0))
       \o ExpectedLeft(r, i + 1, cw, leftover)

\* unstyled, left-aligned cells without width overrides, each text fitting
\* a cell of cw columns
PlainFittingRow(cw) ==
  \A i \in 1..Len(row) :
    /\ row[i].align \in {Undefined, "left"}
    /\ row[i].style = Undefined
    /\ row[i].width = NoNum /\ row[i].cols = NoNum
    /\ textLength(row[i].text) <= cw

\* C9: for such a row the line is, cell by cell, the text and then
\* cellWidth - textWidth spaces, the leftover columns added once to the first
\* cell's; its display width is floor(deviceWidth / w); 'AB' alone on a
\* 4-wide device is 'AB' and two spaces.
C9_LeftAlignedLine ==
  LET base == width \div options[1]
      cw == base \div Len(row)
      leftover == base - cw * Len(row)
      line == Printable(Front(buffer[1].data))
  IN  (depth >= 1 /\ PlainFittingRow(cw)) =>
        /\ line = ExpectedLeft(row, 1, cw, leftover)
        /\ textLength(line) = base
        /\ cells[1][1].piece = row[1].text
             \o Spaces(cw - textLength(row[1].text) + leftover)
        /\ (row = <<Cell(<<65, 66>>, Undefined, Undefined, NoNum, NoNum)>>
            /\ width = 4 /\ options[1] = 1)
           => line = <<65, 66, 32, 32>>

\* 'AB' alone on a 4-wide device, rendered
C9_Witness ==
  /\ pc = "done"
  /\ row = <<Cell(<<65, 66>>, Undefined, Undefined, NoNum, NoNum)>>
  /\ width = 4 /\ options = <<1, 1>>
  /\ Printable(Front(buffer[1].data)) = <<65, 66, 32, 32>>

====
